---- MODULE Spec2Model ----
(***************************************************************************)
(* Model of "search for best deal.py": the Egyptian price comparison tool. *)
(*                                                                         *)
(* Text is modelled as a sequence of one-character strings, a price as an  *)
(* integer number of 10^-FracDigits EGP, and Python's None price as        *)
(* NoPrice.  The products table is the set of its rows; the columns id     *)
(* (never read) and timestamp (read only by the ORDER BY of                *)
(* get_products_summary) are left out.                                     *)
(***************************************************************************)
EXTENDS Integers, Sequences, FiniteSets, TLC

VARIABLES
    db,            \* rows of the products table of product_prices.db
    pc,            \* where main() / show_price_history() stands
    catalog,       \* the raw listings the storefronts serve during this run
    query,         \* search_query of main()
    all_products,  \* search_products: offers collected so far
    fetched,       \* history: per source queried, its status and its offers
    page,          \* history: the raw listings the last scraper looked at
    products,      \* main(): the list search_products returned
    best_deal,     \* display_results: sorted_products[0], <<>> when none
    site_best,     \* display_results: website -> best_site_deal
    choice,        \* show_price_history: the menu answer
    confirm,       \* show_price_history: the answer to the y/n prompt
    updated,       \* save_best_deal: whether the INSERT branch ran
    log,           \* history: the valid save calls made, in order
    ncalls,        \* history: number of ledger calls made
    minSaved,      \* history: name -> lowest price saved since the last clear
    db0,           \* history: the table before the concurrent callers start
    cprod,         \* caller -> the Product it passes to save_best_deal
    cpc,           \* caller -> its position inside save_best_deal
    cres,          \* caller -> the price its SELECT returned (NoPrice: no row)
    call,          \* the arguments of the WebScraper helper being called
    ret            \* <<>> until the helper returns, then <<its return value>>

sessionVars == <<pc, catalog, query, all_products, fetched, page, products,
                 best_deal, site_best, choice, confirm>>
ledgerVars == <<updated, log, ncalls, minSaved>>
concVars == <<db0, cprod, cpc, cres>>
callVars == <<call, ret>>
vars == <<db, sessionVars, ledgerVars, concVars, callVars>>

---------------------------------------------------------------------------
(* Bounds of the model *)

\* listings a storefront page holds (the code reads at most items[:30])
MaxItems == 2
\* ledger calls in one run of the ledger specifications
MaxCalls == 4
\* fractional digits a price keeps
FracDigits == 3
\* length of the enumerated product names
MaxTextLen == 2
\* words of the enumerated offer names and queries
MaxWords == 2
\* search terms of the enumerated term lists
MaxTerms == 3

Scale == 10 ^ FracDigits

\* Python's None in Product.price / the return of _extract_price
NoPrice == -1

---------------------------------------------------------------------------
(* Text *)

DigitChars == <<"0", "1", "2", "3", "4", "5", "6", "7", "8", "9">>
UpperChars == <<"A", "B", "C", "D", "E", "F", "G", "H", "I", "J", "K", "L", "M",
                "N", "O", "P", "Q", "R", "S", "T", "U", "V", "W", "X", "Y", "Z">>
LowerChars == <<"a", "b", "c", "d", "e", "f", "g", "h", "i", "j", "k", "l", "m",
                "n", "o", "p", "q", "r", "s", "t", "u", "v", "w", "x", "y", "z">>

\* the Arabic-Indic digits U+0660..U+0669, each one character
ArabicDigits == <<"ar0", "ar1", "ar2", "ar3", "ar4", "ar5", "ar6", "ar7", "ar8", "ar9">>

Range(s) == {s[i] : i \in 1..Len(s)}

\* \d of a str pattern and str.isdigit(): any Unicode decimal digit
IsDigit(c) == c \in Range(DigitChars) \cup Range(ArabicDigits)

\* the value float() gives a decimal digit
DigitVal(c) == (CHOOSE i \in 1..10 : DigitChars[i] = c \/ ArabicDigits[i] = c) - 1

IsSpace(c) == c \in {" ", "\t", "\n"}

\* str.lower() on one character
LowerChar(c) ==
    IF c \in Range(UpperChars)
    THEN LowerChars[CHOOSE i \in 1..26 : UpperChars[i] = c]
    ELSE c

\* str.lower()
Lower(t) == [i \in 1..Len(t) |-> LowerChar(t[i])]

\* str.strip()
RECURSIVE LStrip(_)
LStrip(t) == IF t # <<>> /\ IsSpace(t[1]) THEN LStrip(Tail(t)) ELSE t

RECURSIVE RStrip(_)
RStrip(t) ==
    IF t # <<>> /\ IsSpace(t[Len(t)]) THEN RStrip(SubSeq(t, 1, Len(t) - 1)) ELSE t

Strip(t) == RStrip(LStrip(t))

\* str.split(): the maximal runs of non-whitespace characters
RECURSIVE SplitFrom(_, _, _)
SplitFrom(t, word, acc) ==
    IF t = <<>>
    THEN IF word = <<>> THEN acc ELSE Append(acc, word)
    ELSE IF IsSpace(t[1])
         THEN SplitFrom(Tail(t), <<>>, IF word = <<>> THEN acc ELSE Append(acc, word))
         ELSE SplitFrom(Tail(t), Append(word, t[1]), acc)

Split(t) == SplitFrom(t, <<>>, <<>>)

\* ' '.join(words)
RECURSIVE JoinSpace(_)
JoinSpace(words) ==
    IF words = <<>> THEN <<>>
    ELSE IF Len(words) = 1 THEN words[1]
    ELSE words[1] \o <<" ">> \o JoinSpace(Tail(words))

\* needle in haystack, for str
IsSubstring(needle, hay) ==
    \E i \in 0..(Len(hay) - Len(needle)) :
        \A k \in 1..Len(needle) : hay[i + k] = needle[k]

---------------------------------------------------------------------------
(* WebScraper._extract_price: the second definition of the class body, which
   is the one bound to the name *)

\* re.sub(r'[^\d.,]', '', price_text)
KeepPriceChars(t) == SelectSeq(t, LAMBDA c : IsDigit(c) \/ c \in {",", "."})

RemoveChar(t, ch) == SelectSeq(t, LAMBDA c : c # ch)

ReplaceChar(t, ch, by) == [i \in 1..Len(t) |-> IF t[i] = ch THEN by ELSE t[i]]

\* mutant: a comma is always the decimal point
CommaIsDecimalPoint(t) == ReplaceChar(t, ",", ".")

\* the "different number formats" branches
NormalizeSeparators(t) ==
    IF "," \in Range(t) /\ "." \in Range(t) THEN RemoveChar(t, ",")
    ELSE IF "," \in Range(t) THEN ReplaceChar(t, ",", ".")
    ELSE t

\* value of a digit string, most significant digit first
RECURSIVE DigitsValue(_)
DigitsValue(t) ==
    IF t = <<>> THEN 0
    ELSE 10 * DigitsValue(SubSeq(t, 1, Len(t) - 1)) + DigitVal(t[Len(t)])

\* the fraction digits as a number of 10^-FracDigits
FractionValue(t) ==
    DigitsValue([i \in 1..FracDigits |-> IF i <= Len(t) THEN t[i] ELSE "0"])

\* float(s) of a string of digits and dots: ValueError (NoPrice) unless it
\* holds one dot at most and a digit
ParseFloat(t) ==
    LET dots == {i \in 1..Len(t) : t[i] = "."}
    IN  IF Cardinality(dots) > 1 \/ Len(t) = Cardinality(dots)
        THEN NoPrice
        ELSE IF dots = {}
             THEN DigitsValue(t) * Scale
             ELSE LET d == CHOOSE i \in dots : TRUE
                  IN  DigitsValue(SubSeq(t, 1, d - 1)) * Scale
                      + FractionValue(SubSeq(t, d + 1, Len(t)))

ExtractPrice(price_text) == ParseFloat(NormalizeSeparators(KeepPriceChars(price_text)))

---------------------------------------------------------------------------
(* DatabaseManager *)

Websites == <<"Amazon Egypt", "Noon Egypt", "Carrefour Egypt">>

\* dataclass Product, without its timestamp
Product(name, price, website, url) ==
    [name |-> name, price |-> price, website |-> website, url |-> url]

SetMin(S) == CHOOSE m \in S : \A x \in S : m <= x

RowsOf(table, name) == {r \in table : r.name = name}

\* INSERT OR REPLACE under UNIQUE(name, website)
InsertOrReplace(table, p) ==
    {r \in table : ~(r.name = p.name /\ r.website = p.website)} \cup {p}

\* the guard both save methods open with
IsSavable(p) == p.name # <<>> /\ p.price # NoPrice

\* save_product
SaveProduct(table, p) == IF IsSavable(p) THEN InsertOrReplace(table, p) ELSE table

\* SELECT price FROM products WHERE name = ? ORDER BY price ASC LIMIT 1
SelectBestPrice(table, name) ==
    IF RowsOf(table, name) = {} THEN NoPrice
    ELSE SetMin({r.price : r \in RowsOf(table, name)})

\* mutant: an equal price counts as better
IsBetterOrEqualDeal(result, price) == result = NoPrice \/ price <= result

\* if not result or product.price < result[0]
IsBetterDeal(result, price) == result = NoPrice \/ price < result

\* save_best_deal: whether it writes
WritesBestDeal(table, p) ==
    IsSavable(p) /\ IsBetterDeal(SelectBestPrice(table, p.name), p.price)

\* save_best_deal
SaveBestDeal(table, p) ==
    IF WritesBestDeal(table, p) THEN InsertOrReplace(table, p) ELSE table

\* clear_database
ClearDatabase(table) == {}

---------------------------------------------------------------------------
(* Values the ledger specifications draw their calls from *)

NameX == <<"X", " ", "8", "G", "B">>
NameCase == <<"C", "a", "s", "e">>

LedgerNames == {NameX, NameCase}

LedgerPrices == {300, 400, 500, 700}

\* the storefronts the ledger specifications write for
LedgerSites == {Websites[1], Websites[2]}

\* the Products a caller may pass, the unsavable ones included
LedgerProducts ==
    {Product(n, pr, w, "url") :
        n \in LedgerNames \cup {<<>>},
        pr \in LedgerPrices \cup {NoPrice},
        w \in LedgerSites}

Callers == {1, 2}

SessionOff ==
    /\ pc = "off"
    /\ catalog = {}
    /\ query = <<>>
    /\ all_products = <<>>
    /\ fetched = <<>>
    /\ page = <<>>
    /\ products = <<>>
    /\ best_deal = <<>>
    /\ site_best = {}
    /\ choice = ""
    /\ confirm = <<>>

LedgerOff ==
    /\ updated = FALSE
    /\ log = <<>>
    /\ ncalls = 0
    /\ minSaved = [n \in LedgerNames |-> NoPrice]

ConcOff ==
    /\ db0 = {}
    /\ cprod = <<>>
    /\ cpc = <<>>
    /\ cres = <<>>

CallOff ==
    /\ call = <<>>
    /\ ret = <<>>

LowerOf(a, b) == IF a = NoPrice THEN b ELSE IF b < a THEN b ELSE a

---------------------------------------------------------------------------
(* SpecBest: a caller drives save_best_deal, one call after another *)

InitBest == db = {} /\ SessionOff /\ LedgerOff /\ ConcOff /\ CallOff

\* one call of save_best_deal(p); log keeps the calls that pass its guard
CallSaveBestDeal(p) ==
    /\ Len(log) < MaxCalls
    /\ db' = SaveBestDeal(db, p)
    /\ updated' = WritesBestDeal(db, p)
    /\ log' = IF IsSavable(p)
              THEN Append(log, [name |-> p.name, price |-> p.price,
                                updated |-> WritesBestDeal(db, p)])
              ELSE log
    /\ UNCHANGED <<ncalls, minSaved, sessionVars, concVars, callVars>>

NextBest == \E p \in LedgerProducts : CallSaveBestDeal(p)

SpecBest == InitBest /\ [][NextBest]_vars

---------------------------------------------------------------------------
(* SpecLedger: a caller drives the three writing methods of DatabaseManager *)

InitLedger == db = {} /\ SessionOff /\ LedgerOff /\ ConcOff /\ CallOff

Saved(p) ==
    IF IsSavable(p)
    THEN [minSaved EXCEPT ![p.name] = LowerOf(minSaved[p.name], p.price)]
    ELSE minSaved

LedgerSaveProduct(p) ==
    /\ ncalls < MaxCalls
    /\ db' = SaveProduct(db, p)
    /\ minSaved' = Saved(p)
    /\ ncalls' = ncalls + 1
    /\ UNCHANGED <<updated, log, sessionVars, concVars, callVars>>

LedgerSaveBestDeal(p) ==
    /\ ncalls < MaxCalls
    /\ db' = SaveBestDeal(db, p)
    /\ updated' = WritesBestDeal(db, p)
    /\ minSaved' = Saved(p)
    /\ ncalls' = ncalls + 1
    /\ UNCHANGED <<log, sessionVars, concVars, callVars>>

LedgerClear ==
    /\ ncalls < MaxCalls
    /\ db' = ClearDatabase(db)
    /\ minSaved' = [n \in LedgerNames |-> NoPrice]
    /\ ncalls' = ncalls + 1
    /\ UNCHANGED <<updated, log, sessionVars, concVars, callVars>>

NextLedger ==
    \/ \E p \in LedgerProducts : LedgerSaveProduct(p)
    \/ \E p \in LedgerProducts : LedgerSaveBestDeal(p)
    \/ LedgerClear

SpecLedger == InitLedger /\ [][NextLedger]_vars

---------------------------------------------------------------------------
(* SpecHistory: a caller drives save_product and clear_database; log keeps the
   observations save_product stored since the last clear *)

InitHistory == db = {} /\ SessionOff /\ LedgerOff /\ ConcOff /\ CallOff

\* one call of save_product(p)
HistorySaveProduct(p) ==
    /\ Len(log) < MaxCalls
    /\ db' = SaveProduct(db, p)
    /\ log' = IF IsSavable(p)
              THEN Append(log, [name |-> p.name, price |-> p.price, updated |-> TRUE])
              ELSE log
    /\ UNCHANGED <<updated, ncalls, minSaved, sessionVars, concVars, callVars>>

\* one call of clear_database()
HistoryClear ==
    /\ db' = ClearDatabase(db)
    /\ log' = <<>>
    /\ UNCHANGED <<updated, ncalls, minSaved, sessionVars, concVars, callVars>>

NextHistory ==
    \/ \E p \in LedgerProducts : HistorySaveProduct(p)
    \/ HistoryClear

SpecHistory == InitHistory /\ [][NextHistory]_vars

---------------------------------------------------------------------------
(* SpecConc: two callers inside save_best_deal at once, each on a connection
   of its own.  The SELECT runs outside any transaction (sqlite3 opens one
   only before the INSERT), so the table may change between a caller's SELECT
   and its INSERT; each statement by itself is atomic. *)

ConcProducts == {Product(NameX, pr, w, "url") : pr \in LedgerPrices, w \in LedgerSites}

InitConc ==
    /\ db \in {{}} \cup {{p} : p \in ConcProducts}
    /\ db0 = db
    /\ cprod \in [Callers -> ConcProducts]
    /\ cpc = [c \in Callers |-> "select"]
    /\ cres = [c \in Callers |-> NoPrice]
    /\ SessionOff
    /\ LedgerOff
    /\ CallOff

\* cursor.execute(SELECT ...); result = cursor.fetchone()
ConcSelect(c) ==
    /\ cpc[c] = "select"
    /\ cres' = [cres EXCEPT ![c] = SelectBestPrice(db, cprod[c].name)]
    /\ cpc' = [cpc EXCEPT ![c] = "check"]
    /\ UNCHANGED <<db, db0, cprod, sessionVars, ledgerVars, callVars>>

\* if not result or product.price < result[0]: INSERT OR REPLACE; commit
ConcWrite(c) ==
    /\ cpc[c] = "check"
    /\ db' = IF IsBetterDeal(cres[c], cprod[c].price)
             THEN InsertOrReplace(db, cprod[c])
             ELSE db
    /\ cpc' = [cpc EXCEPT ![c] = "done"]
    /\ UNCHANGED <<db0, cprod, cres, sessionVars, ledgerVars, callVars>>

NextConc == \E c \in Callers : ConcSelect(c) \/ ConcWrite(c)

SpecConc == InitConc /\ [][NextConc]_vars

---------------------------------------------------------------------------
(* WebScraper: text comparison and relevance *)

IsAlpha(c) == c \in Range(UpperChars) \/ c \in Range(LowerChars)

\* mutant: the dash is dropped with the punctuation
CleanTextWithoutDashes(text) ==
    LET cleaned == SelectSeq(text, LAMBDA c : IsAlpha(c) \/ IsDigit(c) \/ IsSpace(c))
    IN  JoinSpace(Split(Lower(cleaned)))

\* _clean_text_for_comparison
CleanTextForComparison(text) ==
    LET cleaned == SelectSeq(text, LAMBDA c : IsAlpha(c) \/ IsDigit(c) \/ IsSpace(c) \/ c = "-")
    IN  JoinSpace(Split(Lower(cleaned)))

\* _exact_text_match: its first two tests, the textual equivalence of two names
TextEquivalent(text1, text2) ==
    LET t1 == CleanTextForComparison(text1)
        t2 == CleanTextForComparison(text2)
    IN  t1 = t2 \/ RemoveChar(t1, " ") = RemoveChar(t2, " ")

\* [a-z0-9]
IsModelChar(c) == c \in Range(LowerChars) \cup Range(DigitChars)

\* length of the run of [a-z0-9] that starts at t[i]
RECURSIVE RunLen(_, _)
RunLen(t, i) ==
    IF i <= Len(t) /\ IsModelChar(t[i]) THEN 1 + RunLen(t, i + 1) ELSE 0

\* length of the match of [a-z0-9]+-?[a-z0-9]+ that starts at t[i], 0 if none:
\* a run, a dash and a run, or else a run of two characters at least
ModelMatchLen(t, i) ==
    LET n1 == RunLen(t, i)
        n2 == IF i + n1 <= Len(t) /\ t[i + n1] = "-" THEN RunLen(t, i + n1 + 1) ELSE 0
    IN  IF n1 >= 1 /\ n2 >= 1 THEN n1 + 1 + n2
        ELSE IF n1 >= 2 THEN n1
        ELSE 0

\* set(re.findall(model_pattern, t)): the matches from left to right, none
\* overlapping another
RECURSIVE ModelsFrom(_, _)
ModelsFrom(t, i) ==
    IF i > Len(t) THEN {}
    ELSE IF ModelMatchLen(t, i) = 0 THEN ModelsFrom(t, i + 1)
    ELSE {SubSeq(t, i, i + ModelMatchLen(t, i) - 1)}
             \cup ModelsFrom(t, i + ModelMatchLen(t, i))

\* _exact_text_match
ExactTextMatch(text1, text2) ==
    \/ TextEquivalent(text1, text2)
    \/ ModelsFrom(CleanTextForComparison(text1), 1)
           \cap ModelsFrom(CleanTextForComparison(text2), 1) # {}

Lenovo == <<"l", "e", "n", "o", "v", "o">>
Legion == <<"l", "e", "g", "i", "o", "n">>
Laptop == <<"l", "a", "p", "t", "o", "p">>

\* mutant: the critical terms are the words of the phrase looked for
CheckRelevancePhraseWords(product_name, search_terms) ==
    IF product_name = <<>> \/ search_terms = <<>> THEN FALSE
    ELSE LET name == Lower(product_name)
             critical_terms ==
                 IF IsSubstring(Lenovo \o <<" ">> \o Legion, Lower(JoinSpace(search_terms)))
                 THEN {Lenovo, Legion}
                 ELSE {}
             matches == Cardinality({i \in 1..Len(search_terms) :
                                        IsSubstring(Lower(search_terms[i]), name)})
         IN  IF \E term \in critical_terms : ~IsSubstring(term, name) THEN FALSE
             ELSE 10 * matches >= 4 * Len(search_terms)

\* _check_relevance; matches / len(search_terms) >= 0.4 in tenths
CheckRelevance(product_name, search_terms) ==
    IF product_name = <<>> \/ search_terms = <<>> THEN FALSE
    ELSE LET name == Lower(product_name)
             critical_terms ==
                 IF IsSubstring(Lenovo \o <<" ">> \o Legion, Lower(JoinSpace(search_terms)))
                 THEN {Lenovo, Legion, Laptop}
                 ELSE {}
             matches == Cardinality({i \in 1..Len(search_terms) :
                                        IsSubstring(Lower(search_terms[i]), name)})
         IN  IF \E term \in critical_terms : ~IsSubstring(term, name) THEN FALSE
             ELSE 10 * matches >= 4 * Len(search_terms)

\* _normalize_text
NormalizeText(text) == JoinSpace(Split(Lower(text)))

\* the patterns of _extract_specs, "#" standing for \d.  re.search looks for
\* the pattern anywhere in the word, so \d+ finds what one \d finds, and
\* \s* is empty inside a word that split() produced
SpecPatterns ==
    << <<"#", "g", "b">>,
       <<"#", "t", "b">>,
       <<"r", "t", "x", "#">>,
       <<"i", "#", "-", "#">>,
       <<"#", "t", "h">>,
       <<"d", "d", "r", "#">> >>

\* re.search(pattern, word)
SearchPattern(pattern, word) ==
    \E i \in 0..(Len(word) - Len(pattern)) :
        \A k \in 1..Len(pattern) :
            IF pattern[k] = "#" THEN IsDigit(word[i + k]) ELSE word[i + k] = pattern[k]

\* the inner loop of _extract_specs: word is appended once for each pattern
\* found in it
RECURSIVE AppendPerPattern(_, _, _)
AppendPerPattern(specs, word, n) ==
    IF n > Len(SpecPatterns) THEN specs
    ELSE AppendPerPattern(IF SearchPattern(SpecPatterns[n], word)
                          THEN Append(specs, word) ELSE specs,
                          word, n + 1)

RECURSIVE ExtractSpecsFrom(_, _)
ExtractSpecsFrom(specs, words) ==
    IF words = <<>> THEN specs
    ELSE ExtractSpecsFrom(AppendPerPattern(specs, words[1], 1), Tail(words))

\* _extract_specs: a list
ExtractSpecs(text) == ExtractSpecsFrom(<<>>, Split(Lower(text)))

\* _exact_match_score: the float spec_matches / total_specs, as the pair
ExactMatchScore(product_name, search_query) ==
    IF product_name = <<>> \/ search_query = <<>>
    THEN [spec_matches |-> 0, total_specs |-> 1]
    ELSE LET query_specs == ExtractSpecs(NormalizeText(search_query))
             product_specs == ExtractSpecs(NormalizeText(product_name))
         IN  [spec_matches |-> Cardinality({i \in 1..Len(query_specs) :
                                               query_specs[i] \in Range(product_specs)}),
              total_specs |-> IF query_specs # <<>> THEN Len(query_specs) ELSE 1]

---------------------------------------------------------------------------
(* WebScraper.scrape_amazon / scrape_noon / scrape_carrefour: the three share
   one loop; a listing is what the selectors find in one result item, elems
   telling whether name, price and link were all found.  The absolute URL the
   scrapers build from the link is modelled by the link itself. *)

\* mutant: only a price of zero is skipped
IsZeroPrice(price) == price = 0

\* if not price: continue
IsNoPrice(price) == price = NoPrice \/ price = 0

\* one pass of the loop body: the Product appended, if any
ScrapeItem(website, item) ==
    IF ~item.elems THEN <<>>
    ELSE LET name == Strip(item.name)
             price == ExtractPrice(item.price_text)
         IN  IF IsNoPrice(price) THEN <<>>
             ELSE <<Product(name, price, website, item.href)>>

\* the loop over the items of the page
RECURSIVE ScrapeItems(_, _)
ScrapeItems(website, items) ==
    IF items = <<>> THEN <<>>
    ELSE ScrapeItem(website, items[1]) \o ScrapeItems(website, Tail(items))

---------------------------------------------------------------------------
(* PriceComparisonTool *)

\* mutant: an offer goes before the offers of its own price
RECURSIVE InsertBeforeEqual(_, _)
InsertBeforeEqual(sorted, p) ==
    IF sorted = <<>> THEN <<p>>
    ELSE IF p.price <= sorted[1].price THEN <<p>> \o sorted
    ELSE <<sorted[1]>> \o InsertBeforeEqual(Tail(sorted), p)

\* sorted() is stable: an offer goes after the offers of its own price
RECURSIVE InsertByPrice(_, _)
InsertByPrice(sorted, p) ==
    IF sorted = <<>> THEN <<p>>
    ELSE IF p.price < sorted[1].price THEN <<p>> \o sorted
    ELSE <<sorted[1]>> \o InsertByPrice(Tail(sorted), p)

\* sorted(all_products, key=lambda x: x.price)
RECURSIVE SortedByPrice(_)
SortedByPrice(ps) ==
    IF ps = <<>> THEN <<>>
    ELSE InsertByPrice(SortedByPrice(SubSeq(ps, 1, Len(ps) - 1)), ps[Len(ps)])

\* mutant: the error of a source ends the search
NextAfterAbort(n, status) ==
    IF status = "raised" THEN "crashed"
    ELSE IF n = Len(Websites) THEN "ranked" ELSE "search"

\* search_products: the for loop goes on after source n whatever its status,
\* and the method returns after the last source
NextAfter(n, status) == IF n = Len(Websites) THEN "ranked" ELSE "search"

\* min(site_products, key=lambda x: x.price): the first of the cheapest
FirstMin(ps) ==
    ps[CHOOSE i \in 1..Len(ps) :
           /\ \A j \in 1..Len(ps) : ps[i].price <= ps[j].price
           /\ \A j \in 1..(i - 1) : ps[j].price > ps[i].price]

\* display_results: best_deal, as a list of one or no Product
BestOverall(ps) ==
    LET valid_products == SelectSeq(ps, LAMBDA q : q.price # NoPrice)
    IN  IF valid_products = <<>> THEN <<>>
        ELSE <<SortedByPrice(valid_products)[1]>>

\* display_results: the best_site_deal of every website present
BestPerSource(ps) ==
    IF BestOverall(ps) = <<>> THEN {}
    ELSE {FirstMin(SelectSeq(ps, LAMBDA q : q.website = w)) :
             w \in {ps[i].website : i \in 1..Len(ps)}}

\* save_results
RECURSIVE SaveResultsInto(_, _)
SaveResultsInto(table, ps) ==
    IF ps = <<>> THEN table
    ELSE SaveResultsInto(SaveProduct(table, ps[1]), Tail(ps))

RECURSIVE SetSum(_)
SetSum(S) ==
    IF S = {} THEN 0
    ELSE LET x == CHOOSE y \in S : TRUE IN x.price + SetSum(S \ {x})

\* get_products_summary: per name MIN(price), and AVG(price) as sum and count
GetProductsSummary(table) ==
    {[name |-> n,
      min_price |-> SetMin({r.price : r \in RowsOf(table, n)}),
      sum |-> SetSum(RowsOf(table, n)),
      count |-> Cardinality(RowsOf(table, n))] : n \in {r.name : r \in table}}

\* mutant: anything but n confirms
ConfirmsUnlessNo(answer) == Lower(answer) # <<"n">>

\* if confirm.lower() == 'y'
ConfirmsClear(answer) == Lower(answer) = <<"y">>

---------------------------------------------------------------------------
(* What the storefronts serve, and what the user types *)

Listing(name, price_text, href) ==
    [elems |-> TRUE, name |-> name, price_text |-> price_text, href |-> href]

ListingA == Listing(NameX, <<"1", ",", "2", "0", "0", " ", "E", "G", "P">>, "urlA")
ListingB == Listing(NameX, <<"9", "9", "9", ".", "0", "0">>, "urlB")
\* a price text with no number in it
ListingN == Listing(NameX, <<"N", "/", "A">>, "urlN")
ListingC == Listing(NameCase \o <<" ">>, <<"9", "9", "9", ".", "0", "0">>, "urlC")
ListingD == Listing(<<"\n">> \o NameCase, <<"E", "G", "P", " ", "9", "9", "9", ",", "0", "0">>, "urlD")
\* an item whose price element is missing
ListingE == [elems |-> FALSE, name |-> NameCase, price_text |-> <<>>, href |-> "urlE"]

\* what the storefronts serve in a run of SpecSearch
Catalogs == {{ListingA, ListingB, ListingN}, {ListingC, ListingD, ListingE}}

\* what the storefronts serve in a run of Spec
SessionCatalogs == {{ListingB, ListingN}, {ListingC, ListingE}}

\* the pages a storefront may answer with
Pages(cat) == UNION {[1..n -> cat] : n \in 0..MaxItems}

QueryX == NameX

QueryInputs == {<<" ">> \o QueryX, <<" ">>, <<>>}

HistoryChoices == {"1", "2", "x"}

ConfirmAnswers == {<<"y">>, <<"Y">>, <<"n">>, <<"y", "e", "s">>, <<>>}

---------------------------------------------------------------------------
(* Spec: one run of main() *)

Init ==
    /\ db = {}
    /\ pc = "menu"
    /\ catalog \in SessionCatalogs
    /\ query = <<>>
    /\ all_products = <<>>
    /\ fetched = <<>>
    /\ page = <<>>
    /\ products = <<>>
    /\ best_deal = <<>>
    /\ site_best = {}
    /\ choice = ""
    /\ confirm = <<>>
    /\ LedgerOff
    /\ ConcOff
    /\ CallOff

\* main, choice "1": the query is read; an empty one goes back to the menu,
\* another one enters search_products
MenuSearch(raw) ==
    /\ pc = "menu"
    /\ choice' = ""
    /\ confirm' = <<>>
    /\ IF Strip(raw) = <<>>
       THEN UNCHANGED <<pc, query>>
       ELSE pc' = "search" /\ query' = Strip(raw)
    /\ UNCHANGED <<db, catalog, all_products, fetched, page, products, best_deal,
                   site_best, ledgerVars, concVars, callVars>>

\* search_products: the next source is asked.  Its scraper raises, or gets no
\* soup, or scrapes the page it got; after the last source the list is sorted
SearchSource(status, items) ==
    /\ pc = "search"
    /\ LET n == Len(fetched) + 1
           site_products == IF status = "ok" THEN ScrapeItems(Websites[n], items) ELSE <<>>
       IN  /\ all_products' = all_products \o site_products
           /\ fetched' = Append(fetched, [website |-> Websites[n], status |-> status,
                                          offers |-> site_products])
           /\ page' = IF status = "ok" THEN items ELSE <<>>
           /\ pc' = NextAfter(n, status)
           /\ products' = IF pc' = "ranked" THEN SortedByPrice(all_products') ELSE products
    /\ UNCHANGED <<db, catalog, query, best_deal, site_best, choice, confirm,
                   ledgerVars, concVars, callVars>>

\* main: display_results(products, ...)
DisplayResults ==
    /\ pc = "ranked"
    /\ best_deal' = BestOverall(products)
    /\ site_best' = BestPerSource(products)
    /\ all_products' = <<>>
    /\ fetched' = <<>>
    /\ page' = <<>>
    /\ pc' = "save"
    /\ UNCHANGED <<db, catalog, query, products, choice, confirm, ledgerVars, concVars, callVars>>

\* main: save_results(products), and back to the menu
SaveResults ==
    /\ pc = "save"
    /\ db' = SaveResultsInto(db, products)
    /\ products' = <<>>
    /\ best_deal' = <<>>
    /\ site_best' = {}
    /\ pc' = "menu"
    /\ UNCHANGED <<catalog, query, all_products, fetched, page, choice, confirm,
                   ledgerVars, concVars, callVars>>

\* main, choice "2": show_price_history; it returns at once without records
MenuHistory ==
    /\ pc = "menu"
    /\ choice' = ""
    /\ confirm' = <<>>
    /\ pc' = IF GetProductsSummary(db) = {} THEN "menu" ELSE "history"
    /\ UNCHANGED <<db, catalog, query, all_products, fetched, page, products,
                   best_deal, site_best, ledgerVars, concVars, callVars>>

\* show_price_history: the answer to "Choice (1-2)"
HistoryChoice(c) ==
    /\ pc = "history"
    /\ choice' = c
    /\ confirm' = <<>>
    /\ pc' = IF c = "1" THEN "confirm" ELSE IF c = "2" THEN "menu" ELSE "history"
    /\ UNCHANGED <<db, catalog, query, all_products, fetched, page, products,
                   best_deal, site_best, ledgerVars, concVars, callVars>>

\* show_price_history: the answer to "Clear all price history? (y/n)"
HistoryConfirm(answer) ==
    /\ pc = "confirm"
    /\ confirm' = answer
    /\ IF ConfirmsClear(answer)
       THEN db' = ClearDatabase(db) /\ pc' = "menu"
       ELSE db' = db /\ pc' = "history"
    /\ UNCHANGED <<catalog, query, all_products, fetched, page, products,
                   best_deal, site_best, choice, ledgerVars, concVars, callVars>>

\* main, choice "3"
MenuExit ==
    /\ pc = "menu"
    /\ pc' = "exit"
    /\ choice' = ""
    /\ confirm' = <<>>
    /\ UNCHANGED <<db, catalog, query, all_products, fetched, page, products,
                   best_deal, site_best, ledgerVars, concVars, callVars>>

Next ==
    \/ \E raw \in QueryInputs : MenuSearch(raw)
    \/ \E items \in Pages(catalog) : SearchSource("ok", items)
    \/ \E status \in {"no_soup", "raised"} : SearchSource(status, <<>>)
    \/ DisplayResults
    \/ SaveResults
    \/ MenuHistory
    \/ \E c \in HistoryChoices : HistoryChoice(c)
    \/ \E answer \in ConfirmAnswers : HistoryConfirm(answer)
    \/ MenuExit

Spec == Init /\ [][Next]_vars

---------------------------------------------------------------------------
(* SpecSearch: one search, from the query to the results displayed *)

InitSearch ==
    /\ db = {}
    /\ pc = "menu"
    /\ catalog \in Catalogs
    /\ query = <<>>
    /\ all_products = <<>>
    /\ fetched = <<>>
    /\ page = <<>>
    /\ products = <<>>
    /\ best_deal = <<>>
    /\ site_best = {}
    /\ choice = ""
    /\ confirm = <<>>
    /\ LedgerOff
    /\ ConcOff
    /\ CallOff

NextSearch ==
    \/ \E raw \in QueryInputs : MenuSearch(raw)
    \/ \E items \in Pages(catalog) : SearchSource("ok", items)
    \/ \E status \in {"no_soup", "raised"} : SearchSource(status, <<>>)
    \/ DisplayResults

SpecSearch == InitSearch /\ [][NextSearch]_vars

---------------------------------------------------------------------------
(* SpecPrice: one call of _extract_price on a price text *)

\* the characters the enumerated price texts are made of
PriceChars == {"1", "5", "ar2", ",", ".", "E"}

\* the enumerated price texts are no longer than the fraction digits a price
\* keeps, so the price of each is exact
MaxPriceLen == FracDigits

Text(chars, maxlen) == UNION {[1..n -> chars] : n \in 0..maxlen}

PriceExamples_Plain == <<"1", "2", "3", "4", ".", "5", "6">>
PriceExamples_Thousands == <<"1", ",", "2", "3", "4", ".", "5", "6">>
PriceExamples_Comma == <<"1", "2", "3", "4", ",", "5", "6">>

PriceExamples ==
    {PriceExamples_Plain, PriceExamples_Thousands, PriceExamples_Comma,
     <<"E", "G", "P", " ", "1", ",", "2", "3", "4">>,
     <<"1", ",", "2", "3", "4", ",", "5", "6", "7">>,
     <<"1", ".", "2", ",", "5">>}

PriceTexts == PriceExamples \cup Text(PriceChars, MaxPriceLen)

InitPrice ==
    /\ db = {}
    /\ call \in {<<t>> : t \in PriceTexts}
    /\ ret = <<>>
    /\ SessionOff /\ LedgerOff /\ ConcOff

CallExtractPrice ==
    /\ ret = <<>>
    /\ ret' = <<ExtractPrice(call[1])>>
    /\ UNCHANGED <<db, call, sessionVars, ledgerVars, concVars>>

NextPrice == CallExtractPrice

SpecPrice == InitPrice /\ [][NextPrice]_vars

---------------------------------------------------------------------------
(* SpecText: one call of _exact_text_match on two product names *)

TextChars == {"A", "a", "b", " ", "-", "!"}

JoyroomListed ==
    <<"J", "o", "y", "r", "o", "o", "m", " ", "J", "R", "-", "B", "P", "5", "6", "0",
      "S", "!", "!">>
JoyroomTyped ==
    <<"j", "o", "y", "r", "o", "o", "m", " ", "j", "r", " ", "b", "p", "5", "6", "0",
      "s">>
JoyroomSpaced ==
    <<"\t", "J", "O", "Y", "R", "O", "O", "M", " ", "\n", "j", "r", "-", "b", "p", ".",
      "5", "6", "0", "s", " ">>

ProductNames == {JoyroomListed, JoyroomTyped, JoyroomSpaced} \cup Text(TextChars, MaxTextLen)

InitText ==
    /\ db = {}
    /\ call \in ProductNames \X ProductNames
    /\ ret = <<>>
    /\ SessionOff /\ LedgerOff /\ ConcOff

CallExactTextMatch ==
    /\ ret = <<>>
    /\ ret' = <<ExactTextMatch(call[1], call[2])>>
    /\ UNCHANGED <<db, call, sessionVars, ledgerVars, concVars>>

NextText == CallExactTextMatch

SpecText == InitText /\ [][NextText]_vars

---------------------------------------------------------------------------
(* SpecScore: one call of _exact_match_score on an offer name and a query *)

Word16gb == <<"1", "6", "g", "b">>
Word1tb == <<"1", "T", "B">>
WordGbDdr == <<"8", "g", "b", "d", "d", "r", "4">>
WordRtx == <<"R", "T", "X", "3", "0", "6", "0">>
WordI7 == <<"i", "7", "-", "1", "2">>
WordPro == <<"p", "r", "o">>

ScoreWords == {Word16gb, Word1tb, WordGbDdr, WordRtx, WordI7, WordPro}

\* the texts of at most MaxWords words, a space after each
RECURSIVE Phrases(_)
Phrases(n) ==
    IF n = 0 THEN {<<>>}
    ELSE Phrases(n - 1) \cup {w \o <<" ">> \o t : w \in ScoreWords, t \in Phrases(n - 1)}

QueryRepeated == Word16gb \o <<" ">> \o Word16gb \o <<" ">> \o Word1tb

ScoreTexts == Phrases(MaxWords) \cup {<<" ">>, QueryRepeated}

InitScore ==
    /\ db = {}
    /\ call \in ScoreTexts \X ScoreTexts
    /\ ret = <<>>
    /\ SessionOff /\ LedgerOff /\ ConcOff

CallExactMatchScore ==
    /\ ret = <<>>
    /\ ret' = <<ExactMatchScore(call[1], call[2])>>
    /\ UNCHANGED <<db, call, sessionVars, ledgerVars, concVars>>

NextScore == CallExactMatchScore

SpecScore == InitScore /\ [][NextScore]_vars

---------------------------------------------------------------------------
(* SpecRelevance: one call of _check_relevance on an offer name and the
   search terms *)

NameLegion ==
    <<"L", "e", "n", "o", "v", "o", " ", "L", "e", "g", "i", "o", "n", " ",
      "5", " ", "P", "r", "o", " ", "1", "6", "G", "B">>
NameLegionLaptop ==
    <<"L", "e", "n", "o", "v", "o", " ", "L", "e", "g", "i", "o", "n", " ",
      "5", " ", "P", "r", "o", " ", "L", "a", "p", "t", "o", "p", " ", "1",
      "6", "G", "B">>
NameLegionLower ==
    <<"l", "e", "n", "o", "v", "o", " ", "l", "e", "g", "i", "o", "n", " ",
      "5">>
NamePavilion ==
    <<"H", "P", " ", "P", "a", "v", "i", "l", "i", "o", "n", " ", "L", "a",
      "p", "t", "o", "p">>
NameIdeapad ==
    <<"L", "E", "N", "O", "V", "O", " ", "I", "d", "e", "a", "P", "a", "d",
      " ", "l", "a", "p", "t", "o", "p">>

OfferNames == {<<>>, NameLegion, NameLegionLaptop, NameLegionLower, NamePavilion, NameIdeapad}

TermHp == <<"H", "P">>
TermPro == <<"p", "r", "o">>
TermLegion == <<"L", "e", "g", "i", "o", "n">>

Terms == {Lenovo, TermLegion, Laptop, TermHp, TermPro}

TermsOfExample == <<Lenovo, Legion, Laptop>>
\* two of these five occur in NamePavilion
TermsAtThreshold == <<TermHp, Laptop, TermPro, Lenovo, <<"1", "6", "g", "b">> >>

TermLists ==
    {TermsOfExample, TermsAtThreshold, <<Lenovo \o <<" ">> \o Legion>>, << <<>> >>}
        \cup UNION {[1..n -> Terms] : n \in 0..MaxTerms}

InitRelevance ==
    /\ db = {}
    /\ call \in OfferNames \X TermLists
    /\ ret = <<>>
    /\ SessionOff /\ LedgerOff /\ ConcOff

CallCheckRelevance ==
    /\ ret = <<>>
    /\ ret' = <<CheckRelevance(call[1], call[2])>>
    /\ UNCHANGED <<db, call, sessionVars, ledgerVars, concVars>>

NextRelevance == CallCheckRelevance

SpecRelevance == InitRelevance /\ [][NextRelevance]_vars

---------------------------------------------------------------------------
(* Claims about the ledger *)

\* C1 (as claimed; SpecLedger): whatever save_product and save_best_deal calls
\* were made since the last clear, the table holds at most one row per product
\* name, a name that was saved has a row, and that row's price is the lowest
\* price saved for the name.
C1_OneRecordAtMinimum ==
    \A n \in LedgerNames :
        /\ Cardinality(RowsOf(db, n)) <= 1
        /\ minSaved[n] # NoPrice => RowsOf(db, n) # {}
        /\ \A r \in RowsOf(db, n) : r.price = minSaved[n]

\* the prices, and the reports, of the logged save_best_deal calls for name n
LogOf(n) == SelectSeq(log, LAMBDA e : e.name = n)
LogPrices(n) == [i \in 1..Len(LogOf(n)) |-> LogOf(n)[i].price]
LogUpdated(n) == [i \in 1..Len(LogOf(n)) |-> LogOf(n)[i].updated]

\* the stored price of a name is the lowest price recorded for it
C2_StoredIsMinimum ==
    \A n \in LedgerNames :
        IF LogOf(n) = <<>>
        THEN RowsOf(db, n) = {}
        ELSE SelectBestPrice(db, n) = SetMin(Range(LogPrices(n)))

\* after 500, 700, 300, 400 the stored price is 300 and exactly the calls for
\* 500 and 300 reported an update
C2_Scenario ==
    \A n \in LedgerNames :
        LogPrices(n) = <<500, 700, 300, 400>> =>
            /\ SelectBestPrice(db, n) = 300
            /\ LogUpdated(n) = <<TRUE, FALSE, TRUE, FALSE>>

\* one call: it updates exactly when the name has no row or its stored price
\* is strictly greater; an update puts the offered row in place of the row it
\* replaces and touches nothing else; anything else leaves the table as it was
C2_Step ==
    IF log' = log
    THEN db' = db /\ (updated' # updated => ~updated')
    ELSE LET e == log'[Len(log')]
         IN  /\ updated' = e.updated
             /\ e.updated <=> (RowsOf(db, e.name) = {}
                               \/ SelectBestPrice(db, e.name) > e.price)
             /\ ~e.updated => db' = db
             /\ e.updated =>
                    /\ SelectBestPrice(db', e.name) = e.price
                    /\ \E r \in db' :
                           /\ r.name = e.name /\ r.price = e.price
                           /\ db' \ db = {r}
                           /\ \A q \in db \ db' :
                                  q.name = r.name /\ q.website = r.website

C3_AtomicMinimum ==
    (\A c \in Callers : cpc[c] = "done") =>
        SelectBestPrice(db, NameX) =
            SetMin({cprod[c].price : c \in Callers}
                   \cup {r.price : r \in RowsOf(db0, NameX)})

RECURSIVE SeqSum(_)
SeqSum(q) == IF q = <<>> THEN 0 ELSE q[1] + SeqSum(Tail(q))

\* C11 (as claimed; SpecHistory): get_products_summary returns one entry per
\* name saved since the last clear, and the entry's minimum and average are
\* the minimum and the average of every price save_product stored for that
\* name since then.
C11_SummaryOverHistory ==
    LET summary == GetProductsSummary(db)
    IN  /\ \A n \in LedgerNames :
               Cardinality({e \in summary : e.name = n})
                   = (IF LogOf(n) = <<>> THEN 0 ELSE 1)
        /\ \A e \in summary :
               /\ e.min_price = SetMin(Range(LogPrices(e.name)))
               /\ e.sum * Len(LogPrices(e.name)) = SeqSum(LogPrices(e.name)) * e.count

---------------------------------------------------------------------------
(* Claims about a search *)

Count(seq, x) == Cardinality({i \in 1..Len(seq) : seq[i] = x})

\* C4 (as claimed; SpecSearch): when the search for "X 8GB" collected just the
\* listing ("X 8GB", "1,200 EGP", urlA) from one source and ("X 8GB", "999.00",
\* urlB) from another, the 999.00 offer is ranked first, it is the best deal,
\* and the per-source best deals are the two offers.
C4_EndToEnd ==
    (/\ pc = "save"
     /\ query = QueryX
     /\ Len(products) = 2
     /\ {products[1].url, products[2].url} = {"urlA", "urlB"}
     /\ products[1].website # products[2].website)
    => /\ products[1].url = "urlB"
       /\ products[1].price = 999 * Scale
       /\ best_deal = <<products[1]>>
       /\ site_best = {products[1], products[2]}

\* the place of a source's name in the alphabet
SourceNameRank(w) ==
    CASE w = "Amazon Egypt" -> 1
      [] w = "Carrefour Egypt" -> 2
      [] w = "Noon Egypt" -> 3

\* offer i of all_products goes before offer j: by price, then source name,
\* then arrival
BeforeBySourceName(i, j) ==
    LET a == all_products[i]
        b == all_products[j]
    IN  \/ a.price < b.price
        \/ /\ a.price = b.price
           /\ \/ SourceNameRank(a.website) < SourceNameRank(b.website)
              \/ a.website = b.website /\ i < j

\* offer i of all_products goes before offer j: by price, then by the order in
\* which the offers were collected
BeforeByArrival(i, j) ==
    LET a == all_products[i]
        b == all_products[j]
    IN  a.price < b.price \/ (a.price = b.price /\ i < j)

\* all_products in the order Before gives
OrderedBy(Before(_, _)) ==
    LET n == Len(all_products)
        place(k) == 1 + Cardinality({m \in 1..n : Before(m, k)})
    IN  [i \in 1..n |-> all_products[CHOOSE k \in 1..n : place(k) = i]]

\* C5 (as claimed; SpecSearch): the list search_products returns is the offers
\* of all sources in ascending price, offers of one price by source name and
\* then by arrival.
C5_RankBySourceName == pc = "ranked" => products = OrderedBy(BeforeBySourceName)

\* C5 (amended; SpecSearch): the list search_products returns is the offers of
\* all sources in ascending price, offers of one price in the order they were
\* collected: the sources in the order they are queried (Amazon Egypt, Noon
\* Egypt, Carrefour Egypt), each source's offers in arrival order.
C5_RankStable == pc = "ranked" => products = OrderedBy(BeforeByArrival)

\* a ranked list with two offers of one price from two sources, and two
\* different offers of one price from one source
C5_Witness ==
    /\ pc = "ranked"
    /\ \E i, j \in 1..Len(products) :
           /\ i < j
           /\ products[i].price = products[j].price
           /\ products[i].website = "Noon Egypt"
           /\ products[j].website = "Carrefour Egypt"
    /\ \E i, j \in 1..Len(products) :
           /\ i < j
           /\ products[i].price = products[j].price
           /\ products[i].website = products[j].website
           /\ products[i] # products[j]

\* the terms of a query
SearchTerms(q) == Split(q)

\* C6 (as claimed; Spec): no offer the relevance check rejects for the query
\* is in the ranked list, in the best deals, or in the table.
C6_OnlyRelevant ==
    /\ \A p \in Range(products) \cup Range(best_deal) \cup site_best :
           CheckRelevance(p.name, SearchTerms(query))
    /\ \A r \in db : CheckRelevance(r.name, SearchTerms(QueryX))

\* the Products a page yields when only the items with all elements and a
\* price that parses to a positive number are kept, each in its place
ParseableOffers(website, items) ==
    LET kept == SelectSeq(items, LAMBDA it :
                    it.elems /\ ExtractPrice(it.price_text) > 0)
    IN  [i \in 1..Len(kept) |->
            Product(Strip(kept[i].name), ExtractPrice(kept[i].price_text),
                    website, kept[i].href)]

\* C7 (Spec): no offer collected, ranked, shown as a best deal or stored has
\* no price or a price of zero, and a page yields exactly its items with a
\* parseable price, in their order: an unparseable price drops that item only.
C7_NoNullPrice ==
    /\ \A p \in Range(all_products) \cup Range(products) \cup Range(best_deal)
                \cup site_best \cup db :
           p.price # NoPrice /\ p.price > 0
    /\ (fetched # <<>> /\ fetched[Len(fetched)].status = "ok") =>
           fetched[Len(fetched)].offers =
               ParseableOffers(fetched[Len(fetched)].website, page)

\* a page with an unparseable price next to a parseable one has been scraped
\* while the table holds rows
C7_Witness ==
    /\ pc = "ranked"
    /\ db # {}
    /\ products # <<>>
    /\ \E i, j \in 1..Len(page) :
           /\ page[i].elems /\ ExtractPrice(page[i].price_text) = NoPrice
           /\ page[j].elems /\ ExtractPrice(page[j].price_text) > 0

\* C8 (as claimed; SpecSearch): the ranked list holds no two offers of one
\* source with textually equivalent names, for every collected offer it holds
\* an offer of that source with an equivalent name that is not dearer, and an
\* offer with no equivalent in its own source is in it.
C8_Deduplicated ==
    pc = "ranked" =>
        /\ \A i, j \in 1..Len(products) :
               (i < j /\ products[i].website = products[j].website)
                   => ~TextEquivalent(products[i].name, products[j].name)
        /\ \A k \in 1..Len(all_products) : \E i \in 1..Len(products) :
               /\ products[i].website = all_products[k].website
               /\ TextEquivalent(products[i].name, all_products[k].name)
               /\ products[i].price <= all_products[k].price
        /\ \A k \in 1..Len(all_products) :
               (\A m \in 1..Len(all_products) :
                    (m # k /\ all_products[m].website = all_products[k].website)
                        => ~TextEquivalent(all_products[m].name, all_products[k].name))
                   => all_products[k] \in Range(products)

RECURSIVE OffersOf(_)
OffersOf(f) == IF f = <<>> THEN <<>> ELSE f[1].offers \o OffersOf(Tail(f))

\* C9 (SpecSearch): the sources are asked one after the other in their order;
\* a source that raises or gets no page contributes nothing and the next
\* source is asked all the same; no error ends the search, and the list
\* returned holds exactly the offers the sources returned.
C9_PartialFailure ==
    /\ pc # "crashed"
    /\ pc = "search" => Len(fetched) < Len(Websites)
    /\ \A i \in 1..Len(fetched) :
           /\ fetched[i].website = Websites[i]
           /\ fetched[i].status # "ok" => fetched[i].offers = <<>>
    /\ pc = "ranked" =>
           /\ Len(fetched) = Len(Websites)
           /\ Len(products) = Len(OffersOf(fetched))
           /\ \A p \in Range(products) \cup Range(OffersOf(fetched)) :
                  Count(products, p) = Count(OffersOf(fetched), p)

\* a search has ended in which the first source raised, the second got no
\* page and the third returned offers
C9_Witness ==
    /\ pc = "ranked"
    /\ fetched[1].status = "raised"
    /\ fetched[2].status = "no_soup"
    /\ fetched[3].status = "ok"
    /\ fetched[3].offers # <<>>
    /\ products = SortedByPrice(fetched[3].offers)

\* one step of the program seen from the table
C10_Step ==
    IF pc = "confirm" /\ choice = "1" /\ confirm' \in {<<"y">>, <<"Y">>}
    THEN db' = {} /\ GetProductsSummary(db') = {}
    ELSE pc \in {"menu", "history", "confirm"} => db' = db

\* C10 (Spec): in the menus the table changes only when the user chose "1"
\* (Clear history) and answered the confirmation with y; that step deletes
\* every row, so that the summary is empty; any other answer leaves the table.
C10_ClearOnlyConfirmed == [][C10_Step]_vars

\* the history has just been cleared
C10_Witness ==
    pc = "menu" /\ choice = "1" /\ confirm \in {<<"y">>, <<"Y">>} /\ db = {}

---------------------------------------------------------------------------
(* Claims about the helpers of WebScraper *)

AllDigits(t) == \A i \in 1..Len(t) : t[i] \in Range(DigitChars) \cup Range(ArabicDigits)

\* the number a string of digits denotes
RECURSIVE PlaceSum(_, _)
PlaceSum(d, i) ==
    IF i > Len(d) THEN 0
    ELSE DigitVal(d[i]) * 10 ^ (Len(d) - i) + PlaceSum(d, i + 1)

\* t is a decimal numeral: digits, or digits "." digits with a digit somewhere
IsDecimal(t) ==
    \E k \in 0..Len(t) :
        LET a == SubSeq(t, 1, k)
            b == SubSeq(t, k + 1, Len(t))
        IN  /\ AllDigits(a)
            /\ \/ a # <<>> /\ b = <<>>
               \/ /\ b # <<>> /\ b[1] = "." /\ AllDigits(Tail(b))
                  /\ a # <<>> \/ Tail(b) # <<>>

\* the price a decimal numeral denotes
DecimalOf(t) ==
    IF AllDigits(t) THEN PlaceSum(t, 1) * Scale
    ELSE LET k == CHOOSE i \in 1..Len(t) : t[i] = "."
             b == SubSeq(t, k + 1, Len(t))
         IN  PlaceSum(SubSeq(t, 1, k - 1), 1) * Scale
             + PlaceSum(b, 1) * 10 ^ (FracDigits - Len(b))

\* 1234.56 EGP
Price123456 == (123456 * Scale) \div 100

\* C12 (SpecPrice): _extract_price keeps the digits, dots and commas of the
\* text; with both a dot and a comma it drops the commas, with commas alone it
\* turns them into dots; what is left is returned as a decimal number, and
\* None is returned when it is empty, holds no digit or is no valid number.
\* "1234.56", "1,234.56" and "1234,56" all give 1234.56.
C12_ParsePrice ==
    ret # <<>> =>
        LET text == call[1]
            kept == SelectSeq(text, LAMBDA c : AllDigits(<<c>>) \/ c = "." \/ c = ",")
            dot == \E i \in 1..Len(kept) : kept[i] = "."
            comma == \E i \in 1..Len(kept) : kept[i] = ","
            numeral == IF dot /\ comma THEN SelectSeq(kept, LAMBDA c : c # ",")
                       ELSE IF comma
                            THEN [i \in 1..Len(kept) |->
                                     IF kept[i] = "," THEN "." ELSE kept[i]]
                            ELSE kept
        IN  /\ ret = <<IF IsDecimal(numeral) THEN DecimalOf(numeral) ELSE NoPrice>>
            /\ text \in {PriceExamples_Plain, PriceExamples_Thousands, PriceExamples_Comma}
                   => ret = <<Price123456>>

\* "1,234.56" was parsed, and gave 1234.56
C12_Witness == call = <<PriceExamples_Thousands>> /\ ret = <<Price123456>>

\* the letters and digits of a name, lowercased, and its dashes if asked for
Essence(text, dashes) ==
    LET kept == SelectSeq(text, LAMBDA c : \/ LowerChar(c) \in Range(LowerChars)
                                          \/ AllDigits(<<c>>)
                                          \/ (dashes /\ c = "-"))
    IN  [i \in 1..Len(kept) |-> LowerChar(kept[i])]

\* n is the normalized form of text: lowercase letters, digits, dashes and
\* single spaces between words, holding the letters, digits and dashes of text
IsNormalizedFormOf(n, text) ==
    /\ \A i \in 1..Len(n) :
           n[i] \in Range(LowerChars) \cup {"-", " "} \/ AllDigits(<<n[i]>>)
    /\ n # <<>> => (n[1] # " " /\ n[Len(n)] # " ")
    /\ \A i \in 1..(Len(n) - 1) : ~(n[i] = " " /\ n[i + 1] = " ")
    /\ Essence(n, TRUE) = Essence(text, TRUE)
    /\ Len(Split(n)) = Len(Split(SelectSeq(text, LAMBDA c : Essence(<<c>>, TRUE) # <<>>
                                                           \/ IsSpace(c))))

SpaceFree(n) == SelectSeq(n, LAMBDA c : c # " ")

\* the two names pass one of the comparisons of normalized forms
NormalizedFormsAgree(text1, text2) ==
    \/ CleanTextForComparison(text1) = CleanTextForComparison(text2)
    \/ SpaceFree(CleanTextForComparison(text1)) = SpaceFree(CleanTextForComparison(text2))

\* C13 (as claimed; SpecText): the normalized form is lowercase, single-spaced
\* and free of punctuation other than dashes; names that differ only in case,
\* punctuation, spacing or hyphenation agree in their normalized forms, as
\* "Joyroom JR-BP560S!!" and "joyroom jr bp560s" do once spaces are removed.
C13_HyphenationIgnored ==
    ret # <<>> =>
        /\ \A i \in 1..2 : IsNormalizedFormOf(CleanTextForComparison(call[i]), call[i])
        /\ Essence(call[1], FALSE) = Essence(call[2], FALSE)
               => NormalizedFormsAgree(call[1], call[2])
        /\ call = <<JoyroomListed, JoyroomTyped>>
               => SpaceFree(CleanTextForComparison(call[1]))
                      = SpaceFree(CleanTextForComparison(call[2]))

\* C13 (amended; SpecText): the normalized form is lowercase, single-spaced
\* and free of punctuation other than dashes; two names agree in their
\* normalized forms exactly when they differ only in case, spacing and
\* punctuation other than dashes.  "Joyroom JR-BP560S!!" normalizes to
\* "joyroom jr-bp560s", which does not agree with "joyroom jr bp560s";
\* _exact_text_match accepts that pair by the model token they share.
C13_HyphenationKept ==
    ret # <<>> =>
        /\ \A i \in 1..2 : IsNormalizedFormOf(CleanTextForComparison(call[i]), call[i])
        /\ NormalizedFormsAgree(call[1], call[2])
               <=> Essence(call[1], TRUE) = Essence(call[2], TRUE)
        /\ NormalizedFormsAgree(call[1], call[2]) => ret = <<TRUE>>
        /\ call = <<JoyroomListed, JoyroomTyped>> =>
               /\ CleanTextForComparison(call[1])
                      = <<"j", "o", "y", "r", "o", "o", "m", " ", "j", "r", "-", "b", "p",
                          "5", "6", "0", "s">>
               /\ ~NormalizedFormsAgree(call[1], call[2])
               /\ ret = <<TRUE>>
        /\ call = <<JoyroomListed, JoyroomSpaced>> => NormalizedFormsAgree(call[1], call[2])

\* the two names of the example were compared
C13_Witness == call = <<JoyroomListed, JoyroomTyped>> /\ ret = <<TRUE>>

\* the SpecTokens of a text, as a set: its lowercased words in which one of
\* the patterns is found
SpecTokens(text) ==
    {w \in Range(Split(Lower(text))) :
        \E n \in 1..Len(SpecPatterns) : SearchPattern(SpecPatterns[n], w)}

\* C14 (as claimed; SpecScore): the score lies in [0, 1]; it is the number of
\* distinct SpecTokens of the query that are SpecTokens of the offer name,
\* divided by the number of distinct SpecTokens of the query (by 1 if there
\* are none); it is 0 when the offer name or the query is empty.
C14_ScoreOverTokenSets ==
    ret # <<>> =>
        LET score == ret[1]
            offer == SpecTokens(call[1])
            asked == SpecTokens(call[2])
            total == IF asked = {} THEN 1 ELSE Cardinality(asked)
        IN  /\ 0 <= score.spec_matches /\ score.spec_matches <= score.total_specs
            /\ score.spec_matches * total
                   = Cardinality(asked \cap offer) * score.total_specs
            /\ (call[1] = <<>> \/ call[2] = <<>>) => score.spec_matches = 0

\* term occurs in the offer name, whatever the case of either
OccursIn(term, name) ==
    \E i \in 0..(Len(name) - Len(term)) :
        \A k \in 1..Len(term) : LowerChar(name[i + k]) = LowerChar(term[k])

\* the query, lowercased, holds the phrase made of these words
AsksFor(words, terms) == OccursIn(JoinSpace(words), JoinSpace(terms))

\* at least 0.4 of the terms occur in the name
EnoughTermsOccur(name, terms) ==
    5 * Cardinality({i \in 1..Len(terms) : OccursIn(terms[i], name)}) >= 2 * Len(terms)

\* what the claim says of the two offers of its example
RelevanceExample ==
    call[2] = TermsOfExample =>
        /\ call[1] = NameLegion => ret = <<FALSE>>
        /\ call[1] = NameLegionLaptop => ret = <<TRUE>>

\* the phrases the critical phrase of the claim can be read as
CriticalPhrases == {<<Lenovo, Legion>>, <<Lenovo, Legion, Laptop>>}

\* C15 (as claimed; SpecRelevance): an empty name or term list is rejected;
\* a query holding the critical phrase rejects an offer whose name lacks a
\* word of that phrase; every other offer is accepted exactly when at least
\* 0.4 of the terms occur in its name.  With the terms lenovo, legion, laptop
\* the offer without "Laptop" is rejected, the one with it accepted.
C15_PhraseWordsRequired ==
    ret # <<>> =>
        /\ \E phrase \in CriticalPhrases :
               ret[1] <=>
                   /\ call[1] # <<>> /\ call[2] # <<>>
                   /\ AsksFor(phrase, call[2]) =>
                          \A k \in 1..Len(phrase) : OccursIn(phrase[k], call[1])
                   /\ EnoughTermsOccur(call[1], call[2])
        /\ RelevanceExample

\* C15 (amended; SpecRelevance): an empty name or term list is rejected; a
\* query holding "lenovo legion" rejects an offer whose name lacks "lenovo",
\* "legion" or "laptop"; every other offer is accepted exactly when at least
\* 0.4 of the terms occur in its name.  With the terms lenovo, legion, laptop
\* the offer without "Laptop" is rejected, the one with it accepted.
C15_LaptopRequired ==
    ret # <<>> =>
        /\ ret[1] <=>
               /\ call[1] # <<>> /\ call[2] # <<>>
               /\ AsksFor(<<Lenovo, Legion>>, call[2]) =>
                      \A word \in {Lenovo, Legion, Laptop} : OccursIn(word, call[1])
               /\ EnoughTermsOccur(call[1], call[2])
        /\ RelevanceExample

\* the offer of the example that lacks "Laptop" was judged, and rejected
C15_Witness == call = <<NameLegion, TermsOfExample>> /\ ret = <<FALSE>>

====
